---- MODULE Spec2Model ----
(***************************************************************************)
(* Eco Agent: the message-context management of the chat request handler   *)
(* (reload, filtering, summarization, token-budget trimming, persistence)  *)
(* and the olympiaRAGSearch tool with its retrieval endpoint; the          *)
(* handler's refusals and catch block; POST /api/eco-rag step by step; the *)
(* tools generateImage, codeExecution and webSearch with their tracking,   *)
(* and GET /api/images/[imageId].                                          *)
(*                                                                         *)
(* A message part is abstracted to the fields the handler looks at:        *)
(*   type    the part's type string                                        *)
(*   len     characters of its text (text parts) or of its result payload  *)
(*   out     part.output is neither undefined nor null                     *)
(*   res     part.result is neither undefined nor null                     *)
(*   outImg  part.output carries imageData (a base64 image)                *)
(*   resImg  part.result carries imageData (a base64 image)                *)
(*   rsid    the part carries a provider response identifier (a field      *)
(*           response, responseId, rs_id, response_id, requestId or        *)
(*           request_id, or a string value starting with rs_)              *)
(* A message is [id, role, parts]; an id is [kind, n] where kind "uuid"    *)
(* matches the handler's UUID pattern and "sdk" / "summary" do not.        *)
(***************************************************************************)
EXTENDS Integers, Sequences, FiniteSets, TLC

VARIABLES
    pMessages,   \* pure-function harness: the message list given
    pMaxTokens,  \* pure-function harness: the budget given
    pResult,     \* pure-function harness: the list returned
    pOp,         \* pure-function harness: "input", "trim" or "summarize"
    client,      \* what every chat request carries: user and sessionId
    stored,      \* the ChatMessage rows of the session, in order
    uuidCtr,     \* number of UUIDs drawn from randomUUID so far
    req,         \* per chat request: position and local variables
    ragSession,  \* the conversation of the tool calls carries a sessionId
    ragRows,     \* RagContext rows stored for the session (context ids)
    endpointHits,\* POST /api/eco-rag requests received
    call,        \* per olympiaRAGSearch invocation: position and locals
    gate,        \* one chat request on its way to a response or an error
    ep,          \* one POST /api/eco-rag request: position, locals, effects
    toolCall,    \* one tool invocation: position and locals
    images,      \* the rows of the images table
    events,      \* usage and analytics events emitted so far
    csv          \* one createCSV invocation: input, position, csvContent

vars == <<pMessages, pMaxTokens, pResult, pOp, client, stored, uuidCtr, req,
          ragSession, ragRows, endpointHits, call,
          gate, ep, toolCall, images, events, csv>>

pureVars == <<pMessages, pMaxTokens, pResult, pOp, csv>>
chatVars == <<client, stored, uuidCtr, req>>
ragVars  == <<ragSession, ragRows, endpointHits, call>>
extVars  == <<gate, ep, toolCall, images, events>>

(***************************************************************************)
(* Program constants                                                       *)
(***************************************************************************)
CharsPerToken == 4
RoleOverhead == 4
MinimalTokens == 10
SummarizeThreshold == 5
KeepRecent == 3
TextTruncate == 500
SummaryMaxEntries == 20
TokenBudget == 10000
ImageTokens == 876000
MAX_RAG_CALLS_PER_SESSION == 4
MaxCodeLength == 10000
TopK == 5

(***************************************************************************)
(* Bounds of the model                                                     *)
(***************************************************************************)
MaxPureLen == 4      \* longest message list given to the pure functions
MaxFrontend == 2     \* longest frontend message list enumerated part by part
MaxReqs == 2         \* chat requests, possibly concurrent
MaxCalls == 6        \* olympiaRAGSearch invocations, possibly concurrent
MaxEpRuns == 1       \* requests sent to POST /api/eco-rag one after another
MaxToolRuns == 2     \* tool invocations one after another
MaxCellLen == 1      \* characters of a header or cell given to createCSV
MaxCsvColumns == 2   \* columns of the headers and of a row
MaxCsvRows == 2      \* data rows given to createCSV

(***************************************************************************)
(* Parts and messages                                                      *)
(***************************************************************************)
Part(t, l, o, r, oi, ri, rs) ==
    [type |-> t, len |-> l, out |-> o, res |-> r,
     outImg |-> oi, resImg |-> ri, rsid |-> rs]

Msg(i, r, ps) == [id |-> i, role |-> r, parts |-> ps]

SdkId(n) == [kind |-> "sdk", n |-> n]
Uuid(n) == [kind |-> "uuid", n |-> n]

\* typeof part.type === 'string' && part.type.startsWith('tool-')
IsToolType(t) == t \in {"tool-webSearch", "tool-generateImage", "tool-olympiaRAGSearch"}

Min(a, b) == IF a < b THEN a ELSE b

CeilDiv(n, d) == (n + d - 1) \div d

\* estimateTokens: Math.ceil(text.length / 4)
estimateTokens(chars) == CeilDiv(chars, CharsPerToken)

\* Length of JSON.stringify(part): the type, the text or payload, the image
\* payload and the identifier field when present.
PartJsonLen(p) ==
    20 + p.len
    + (IF p.out THEN 12 ELSE 0) + (IF p.res THEN 12 ELSE 0)
    + (IF p.outImg THEN ImageTokens * CharsPerToken ELSE 0)
    + (IF p.resImg THEN ImageTokens * CharsPerToken ELSE 0)
    + (IF p.rsid THEN 24 ELSE 0)

RECURSIVE SumOver(_, _)
SumOver(s, i) == IF i = 0 THEN 0 ELSE s[i] + SumOver(s, i - 1)

Sum(s) == SumOver(s, Len(s))

\* Length of JSON.stringify(message): id, role and the parts array.
MessageJsonLen(m) ==
    40 + Sum([i \in 1..Len(m.parts) |-> PartJsonLen(m.parts[i]) + 1])

PartTokens(p) ==
    IF p.type = "text" /\ p.len > 0
    THEN estimateTokens(p.len)
    ELSE estimateTokens(PartJsonLen(p))

estimateMessageTokens(m) ==
    LET tokens == RoleOverhead
                  + Sum([i \in 1..Len(m.parts) |-> PartTokens(m.parts[i])])
    IN IF tokens <= MinimalTokens
       THEN estimateTokens(MessageJsonLen(m))
       ELSE tokens

TotalTokens(msgs) ==
    Sum([i \in 1..Len(msgs) |-> estimateMessageTokens(msgs[i])])

(***************************************************************************)
(* trimMessages                                                            *)
(***************************************************************************)
\* Mutant of KeepFrom: the budget is tested before the message is added.
RECURSIVE KeepFromLate(_, _, _, _)
KeepFromLate(msgs, i, currentTokens, maxTokens) ==
    IF i = 0 THEN 1
    ELSE IF currentTokens > maxTokens
         THEN i + 1
         ELSE KeepFromLate(msgs, i - 1,
                           currentTokens + estimateMessageTokens(msgs[i]), maxTokens)

\* Mutant of KeepFrom: the scan passes over a message that does not fit and
\* goes on to the older ones.
RECURSIVE KeepFromPassing(_, _, _, _)
KeepFromPassing(msgs, i, currentTokens, maxTokens) ==
    IF i = 0 THEN 1
    ELSE IF currentTokens + estimateMessageTokens(msgs[i]) > maxTokens
         THEN (IF i = Len(msgs) THEN i + 1
               ELSE KeepFromPassing(msgs, i - 1, currentTokens, maxTokens))
         ELSE KeepFromPassing(msgs, i - 1,
                       currentTokens + estimateMessageTokens(msgs[i]), maxTokens)

\* The backward scan: the index of the oldest message kept.
RECURSIVE KeepFrom(_, _, _, _)
KeepFrom(msgs, i, currentTokens, maxTokens) ==
    IF i = 0 THEN 1
    ELSE IF currentTokens + estimateMessageTokens(msgs[i]) > maxTokens
         THEN i + 1
         ELSE KeepFrom(msgs, i - 1,
                       currentTokens + estimateMessageTokens(msgs[i]), maxTokens)

UserIndexes(msgs) == {i \in 1..Len(msgs) : msgs[i].role = "user"}

MaxOf(S) == CHOOSE x \in S : \A y \in S : y <= x

\* The emergency fallback taken when the scan kept nothing.
TrimFallback(msgs) ==
    IF UserIndexes(msgs) # {}
    THEN <<msgs[MaxOf(UserIndexes(msgs))]>>
    ELSE <<msgs[Len(msgs)]>>

trimMessages(messages, maxTokens) ==
    IF Len(messages) = 0 THEN messages
    ELSE LET k == KeepFrom(messages, Len(messages), 0, maxTokens)
             trimmed == SubSeq(messages, k, Len(messages))
         IN IF Len(trimmed) = 0 THEN TrimFallback(messages) ELSE trimmed

(***************************************************************************)
(* summarizeOlderMessages                                                  *)
(***************************************************************************)
ToolPartCount(m) == Cardinality({i \in 1..Len(m.parts) : IsToolType(m.parts[i].type)})

countToolCalls(messages) ==
    Sum([i \in 1..Len(messages) |-> ToolPartCount(messages[i])])

\* Characters one part adds to summaryParts; 0 when it adds no entry.
SummaryEntryLen(role, p) ==
    IF p.type = "text" /\ p.len > 0
    THEN (IF role = "user" THEN 8 ELSE 13)
         + (IF p.len > TextTruncate THEN TextTruncate + 3 ELSE p.len)
    ELSE IF p.type = "tool-olympiaRAGSearch"
         THEN (IF p.res THEN 60 ELSE 0)
    ELSE IF p.type = "tool-generateImage" THEN 17
    ELSE IF IsToolType(p.type) THEN 30
    ELSE 0

RECURSIVE Flatten(_)
Flatten(ss) == IF Len(ss) = 0 THEN <<>> ELSE Head(ss) \o Flatten(Tail(ss))

SummaryEntries(older) ==
    LET all == Flatten([i \in 1..Len(older) |->
                   [j \in 1..Len(older[i].parts) |->
                       SummaryEntryLen(older[i].role, older[i].parts[j])]])
    IN SelectSeq(all, LAMBDA n : n > 0)

\* summaryText: header, the first 20 entries joined by newlines, trailer.
SummaryTextLen(older) ==
    LET entries == SummaryEntries(older)
        kept == SubSeq(entries, 1, Min(Len(entries), SummaryMaxEntries))
    IN 56 + Sum(kept) + (IF Len(kept) > 0 THEN Len(kept) - 1 ELSE 0) + 47

SummaryMessage(older) ==
    Msg([kind |-> "summary", n |-> 0], "user",
        <<Part("text", SummaryTextLen(older), FALSE, FALSE, FALSE, FALSE, FALSE)>>)

\* Mutant of summarizeOlderMessages: the threshold test is off by one.
summarizeAboveThreshold(messages) ==
    IF countToolCalls(messages) <= SummarizeThreshold \/ Len(messages) <= KeepRecent
    THEN messages
    ELSE <<SummaryMessage(SubSeq(messages, 1, Len(messages) - KeepRecent))>>
         \o SubSeq(messages, Len(messages) - KeepRecent + 1, Len(messages))

\* Mutant of summarizeOlderMessages: one more message is kept after the
\* summary.
summarizeKeepingFour(messages) ==
    IF countToolCalls(messages) < SummarizeThreshold \/ Len(messages) <= KeepRecent
    THEN messages
    ELSE <<SummaryMessage(SubSeq(messages, 1, Len(messages) - KeepRecent))>>
         \o SubSeq(messages, Len(messages) - KeepRecent, Len(messages))

summarizeOlderMessages(messages) ==
    IF countToolCalls(messages) < SummarizeThreshold \/ Len(messages) <= KeepRecent
    THEN messages
    ELSE <<SummaryMessage(SubSeq(messages, 1, Len(messages) - KeepRecent))>>
         \o SubSeq(messages, Len(messages) - KeepRecent + 1, Len(messages))

(***************************************************************************)
(* The pure functions applied to bounded inputs                            *)
(***************************************************************************)
TextPart(l) == Part("text", l, FALSE, FALSE, FALSE, FALSE, FALSE)
ToolDone == Part("tool-webSearch", 100, TRUE, FALSE, FALSE, FALSE, FALSE)
ImageOut == Part("tool-generateImage", 100, TRUE, FALSE, TRUE, FALSE, FALSE)

\* The message shapes given to the pure functions: small and oversized texts
\* of both roles, messages with several tool calls, an image payload.
PureShapes ==
    { [role |-> "user", parts |-> <<TextPart(8)>>],
      [role |-> "user", parts |-> <<TextPart(48000)>>],
      [role |-> "assistant", parts |-> <<TextPart(200)>>],
      [role |-> "assistant", parts |-> <<ToolDone, ToolDone>>],
      [role |-> "assistant", parts |-> <<TextPart(8), ToolDone, ToolDone, ToolDone>>],
      [role |-> "assistant", parts |-> <<ImageOut>>] }

PureBudgets == {20, 100, TokenBudget}

\* Lists of at most n shapes, each message identified by its position.
PureInputs(n) ==
    UNION { { [i \in 1..k |-> Msg(SdkId(i), f[i].role, f[i].parts)] :
                f \in [1..k -> PureShapes] } : k \in 0..n }

InitPure ==
    /\ pMessages \in PureInputs(MaxPureLen)
    /\ pMaxTokens \in PureBudgets
    /\ pResult = <<>>
    /\ pOp = "input"
    /\ csv = <<>>
    /\ client = [user |-> FALSE, sid |-> FALSE]
    /\ stored = <<>> /\ uuidCtr = 0 /\ req = <<>>
    /\ ragSession = FALSE /\ ragRows = {} /\ endpointHits = 0 /\ call = <<>>
    /\ gate = <<>> /\ ep = <<>> /\ toolCall = <<>> /\ images = {} /\ events = {}

ApplyTrim ==
    /\ pOp = "input"
    /\ pResult' = trimMessages(pMessages, pMaxTokens)
    /\ pOp' = "trim"
    /\ UNCHANGED <<pMessages, pMaxTokens, csv, chatVars, ragVars, extVars>>

ApplySummarize ==
    /\ pOp = "input"
    /\ pResult' = summarizeOlderMessages(pMessages)
    /\ pOp' = "summarize"
    /\ UNCHANGED <<pMessages, pMaxTokens, csv, chatVars, ragVars, extVars>>

NextPure == ApplyTrim \/ ApplySummarize

SpecPure == InitPure /\ [][NextPure]_vars

(***************************************************************************)
(* Claims about trimMessages and summarizeOlderMessages                    *)
(***************************************************************************)
Last(s) == s[Len(s)]

IsSummarized(input, output) ==
    /\ Len(output) > 0
    /\ output[1].id.kind = "summary"
    /\ output # input

C5_SummarizesAtFiveToolCalls ==
    pOp = "summarize" =>
        IF countToolCalls(pMessages) >= SummarizeThreshold
        THEN IsSummarized(pMessages, pResult)
        ELSE pResult = pMessages

\* C5 (amended): summarizeOlderMessages replaces older messages by a summary
\* whenever the tool-call count is at least 5 and the list has more than 3
\* messages, and returns the list unchanged in every other case.
C5_SummarizesAtFiveToolCallsAndFourMessages ==
    pOp = "summarize" =>
        IF countToolCalls(pMessages) >= SummarizeThreshold
           /\ Len(pMessages) > KeepRecent
        THEN IsSummarized(pMessages, pResult)
        ELSE pResult = pMessages

C5_Witness ==
    /\ pOp = "summarize"
    /\ countToolCalls(pMessages) = SummarizeThreshold
    /\ Len(pMessages) > KeepRecent
    /\ IsSummarized(pMessages, pResult)

Suffix(msgs, k) == SubSeq(msgs, k, Len(msgs))

\* The starts of the suffixes whose summed estimate fits the budget.
FittingStarts(msgs, maxTokens) ==
    {k \in 1..Len(msgs) : TotalTokens(Suffix(msgs, k)) <= maxTokens}

MessageIds(msgs) == {msgs[i].id : i \in 1..Len(msgs)}

\* C21: whenever summarizeOlderMessages summarizes, its output is one
\* synthetic summary message (role user, a single text part) followed by the
\* last 3 input messages, unchanged and in order: the output has length 4 and
\* none of the earlier messages appears in it.
C21_SummaryThenLastThree ==
    (pOp = "summarize" /\ IsSummarized(pMessages, pResult)) =>
        /\ Len(pResult) = KeepRecent + 1
        /\ pResult[1].role = "user"
        /\ Len(pResult[1].parts) = 1
        /\ pResult[1].parts[1].type = "text"
        /\ pResult[1].id \notin MessageIds(pMessages)
        /\ SubSeq(pResult, 2, Len(pResult))
             = SubSeq(pMessages, Len(pMessages) - KeepRecent + 1, Len(pMessages))
        /\ \A i \in 1..(Len(pMessages) - KeepRecent) :
              pMessages[i].id \notin MessageIds(pResult)

C21_Witness ==
    /\ pOp = "summarize"
    /\ Len(pMessages) = MaxPureLen
    /\ IsSummarized(pMessages, pResult)
    /\ Len(pResult) = KeepRecent + 1
    /\ pResult[2] = pMessages[Len(pMessages) - KeepRecent + 1]

\* C22: trimMessages always keeps at least the last user message: whenever
\* the input contains a message with role user, the output contains the last
\* such message.
C22_LastUserMessageKept ==
    (pOp = "trim" /\ UserIndexes(pMessages) # {}) =>
        \E i \in 1..Len(pResult) :
            pResult[i] = pMessages[MaxOf(UserIndexes(pMessages))]

(***************************************************************************)
(* The chat request handler: POST /api/chat                                *)
(***************************************************************************)
Row(i, r, c) == [id |-> i, role |-> r, content |-> c]

MapSeq(s, Op(_)) == [i \in 1..Len(s) |-> Op(s[i])]

\* The filter applied to the parts of a message reloaded from storage.
LoadedPartKept(p) ==
    \/ p.type = "text"
    \/ IsToolType(p.type) /\ (p.out \/ p.res)

StripOne(p) == [p EXCEPT !.rsid = FALSE]

stripResponseMetadata(parts) == MapSeq(parts, StripOne)

LoadedMessage(row) ==
    Msg(row.id, row.role,
        stripResponseMetadata(SelectSeq(row.content, LoadedPartKept)))

LoadedMessages(dbMessages) == MapSeq(dbMessages, LoadedMessage)

\* The filter applied to the parts of a message taken from the frontend.
FrontendPartKept(p) == p.type = "text" \/ IsToolType(p.type)

\* imageData removed from the result of a tool-generateImage part and the
\* _saved note added.
StripResultImage(p) ==
    IF p.type = "tool-generateImage" /\ p.res /\ p.resImg
    THEN [p EXCEPT !.resImg = FALSE, !.len = @ + 90]
    ELSE p

\* The newest frontend message on the reload path.
FilteredNewMessage(newMessage) ==
    [newMessage EXCEPT
        !.parts = MapSeq(SelectSeq(newMessage.parts, FrontendPartKept),
                         StripResultImage)]

\* One frontend message on the first-message path.
FirstPathMessage(msg) ==
    [msg EXCEPT
        !.parts = MapSeq(SelectSeq(msg.parts, FrontendPartKept),
                         StripResultImage)]

\* Mutant of RequestMessages: the frontend's copy of the history is used
\* on both paths.
RequestMessagesFromFrontend(sid, frontendMessages, dbMessages) ==
    MapSeq(frontendMessages, FirstPathMessage)

\* The handler's message list: history from storage plus the newest frontend
\* message, or the filtered frontend messages.
RequestMessages(sid, frontendMessages, dbMessages) ==
    IF sid /\ Len(frontendMessages) > 1
    THEN LoadedMessages(dbMessages)
         \o <<FilteredNewMessage(Last(frontendMessages))>>
    ELSE MapSeq(frontendMessages, FirstPathMessage)

\* What streamText is given: summarized, then trimmed to the budget.
ForwardedMessages(messages) ==
    trimMessages(summarizeOlderMessages(messages), TokenBudget)

\* The save before streaming takes place.
SavesUserMessage(user, sid, messages) ==
    /\ user /\ sid /\ Len(messages) > 0
    /\ Last(messages).role = "user"

\* saveChatMessages(sessionId, rows): the session's rows are replaced.
saveChatMessages(rows) == rows

\* Mutant of OriginalMessages: the list sent to the model is handed on.
OriginalMessagesForwarded(messages, forwarded) == forwarded

\* originalMessages: messages
OriginalMessages(messages, forwarded) == messages

\* toUIMessageStreamResponse({originalMessages}): the messages handed to
\* onFinish. A trailing assistant message is continued by the response.
AllMessages(originalMessages, responseId, responseParts) ==
    IF Len(originalMessages) > 0 /\ Last(originalMessages).role = "assistant"
    THEN [originalMessages EXCEPT
            ![Len(originalMessages)].parts = @ \o responseParts]
    ELSE originalMessages \o <<Msg(responseId, "assistant", responseParts)>>

\* The onFinish filter of the parts of one message.
SavedPartKept(role, p) ==
    \/ role = "user"
    \/ p.type = "text"
    \/ IsToolType(p.type) /\ (p.out \/ p.res)

ContentToSave(message) ==
    MapSeq(SelectSeq(message.parts, LAMBDA p : SavedPartKept(message.role, p)),
           StripResultImage)

NeedsUuid(m) == m.id.kind # "uuid"

FreshBefore(msgs, i) == Cardinality({j \in 1..i : NeedsUuid(msgs[j])})

\* messagesToSave: filtered content, the id kept when it is a UUID and
\* drawn from randomUUID otherwise.
MessagesToSave(allMessages, ctr) ==
    [i \in 1..Len(allMessages) |->
        Row(IF NeedsUuid(allMessages[i])
            THEN Uuid(ctr + FreshBefore(allMessages, i))
            ELSE allMessages[i].id,
            allMessages[i].role,
            ContentToSave(allMessages[i]))]

(***************************************************************************)
(* Inputs of the chat handler                                              *)
(***************************************************************************)
TextRs == Part("text", 8, FALSE, FALSE, FALSE, FALSE, TRUE)
ToolOpen == Part("tool-webSearch", 0, FALSE, FALSE, FALSE, FALSE, FALSE)
ImageRes == Part("tool-generateImage", 100, FALSE, TRUE, FALSE, TRUE, FALSE)
ImageRef == Part("tool-generateImage", 100, TRUE, FALSE, FALSE, FALSE, FALSE)
Reasoning == Part("reasoning", 400, FALSE, FALSE, FALSE, FALSE, TRUE)
ImagePart == Part("image", ImageTokens * CharsPerToken, FALSE, FALSE, FALSE, FALSE, FALSE)

\* The part lists of the newest frontend message.
NewestShapes ==
    { [role |-> "user", parts |-> <<p>>] :
        p \in {TextPart(8), TextRs, ToolDone, ToolOpen, ImageOut, ImageRes,
               Reasoning, ImagePart} }
    \cup { [role |-> "assistant", parts |-> <<TextPart(8), ToolOpen>>] }

\* The part lists of the earlier frontend messages.
EarlierShapes == { [role |-> "assistant", parts |-> <<ToolOpen, TextRs>>] }

\* A conversation long enough to be summarized.
LongConversation ==
    << Msg(SdkId(1), "user", <<TextPart(8)>>),
       Msg(SdkId(2), "assistant", <<ToolDone, ToolDone, ToolDone>>),
       Msg(SdkId(3), "assistant", <<ToolDone, ToolDone, TextPart(200)>>),
       Msg(SdkId(4), "assistant", <<TextPart(200)>>),
       Msg(SdkId(5), "user", <<TextPart(8)>>) >>

FrontendInputs ==
    UNION { { [i \in 1..k |-> Msg(SdkId(i), f[i].role, f[i].parts)] :
                f \in { g \in [1..k -> NewestShapes \cup EarlierShapes] :
                          /\ (k > 0 => g[k] \in NewestShapes)
                          /\ \A i \in 1..(k - 1) : g[i] \in EarlierShapes } } :
            k \in 0..MaxFrontend }
    \cup {LongConversation}

\* The parts of the streamed assistant response.
ResponseShapes ==
    { <<TextPart(200)>>,
      <<Reasoning, ToolDone, TextPart(200)>>,
      <<ToolOpen>>,
      <<ImageRef, TextPart(8)>> }

\* The rows of a session after two earlier turns with several tool calls.
StoredHistory ==
    << Row(Uuid(0 - 1), "user", <<TextPart(8)>>),
       Row(Uuid(0 - 2), "assistant", <<ToolDone, ToolDone, ToolDone, TextPart(200)>>),
       Row(Uuid(0 - 3), "user", <<TextPart(8)>>),
       Row(Uuid(0 - 4), "assistant", <<ToolDone, ToolDone, TextPart(200)>>) >>

Reqs == 1..MaxReqs

IdleRequest ==
    [pc |-> "idle", frontend |-> <<>>, messages |-> <<>>, prior |-> <<>>,
     existing |-> <<>>, newId |-> Uuid(0), forwarded |-> <<>>,
     savedEarly |-> FALSE, overlap |-> FALSE, written |-> <<>>,
     loaded |-> <<>>, response |-> <<>>, drawn |-> 0]

InitChat ==
    /\ client \in [user : BOOLEAN, sid : BOOLEAN]
    /\ stored = <<>>
    /\ uuidCtr = 0
    /\ req = [r \in Reqs |-> IdleRequest]
    /\ pMessages = <<>> /\ pMaxTokens = 0 /\ pResult = <<>> /\ pOp = "off" /\ csv = <<>>
    /\ ragSession = FALSE /\ ragRows = {} /\ endpointHits = 0 /\ call = <<>>
    /\ gate = <<>> /\ ep = <<>> /\ toolCall = <<>> /\ images = {} /\ events = {}

InFlight(q) == req[q].pc \notin {"idle", "done"}

\* req.json() and the reload of the history from storage (or the filtering
\* of the frontend messages). overlap records that another request of the
\* session was being handled at the same time.
Receive(r) ==
    /\ req[r].pc = "idle"
    /\ \A q \in Reqs : q < r => req[q].pc # "idle"
    /\ \E frontendMessages \in FrontendInputs, readOk \in BOOLEAN :
        /\ readOk \/ (client.sid /\ Len(frontendMessages) > 1)
        /\ req' = [q \in Reqs |->
              IF q = r
              THEN [req[r] EXCEPT
                      !.pc = "received",
                      !.frontend = frontendMessages,
                      !.prior = stored,
                      !.overlap = \E o \in Reqs : InFlight(o),
                      !.loaded = IF readOk /\ client.sid /\ Len(frontendMessages) > 1
                                 THEN stored ELSE <<>>,
                      !.messages = RequestMessages(client.sid, frontendMessages,
                                      IF readOk THEN stored ELSE <<>>)]
              ELSE [req[q] EXCEPT !.overlap = @ \/ InFlight(q)]]
    /\ UNCHANGED <<client, stored, uuidCtr, pureVars, ragVars, extVars>>

\* Save user message immediately: randomUUID and getChatMessages.
ReadExisting(r) ==
    /\ req[r].pc = "received"
    /\ SavesUserMessage(client.user, client.sid, req[r].messages)
    /\ \E readOk \in BOOLEAN :
        req' = [req EXCEPT ![r] =
              [@ EXCEPT !.pc = "presave",
                        !.newId = Uuid(uuidCtr + 1),
                        !.existing = IF readOk THEN stored ELSE <<>>]]
    /\ uuidCtr' = uuidCtr + 1
    /\ UNCHANGED <<client, stored, pureVars, ragVars, extVars>>

\* Save user message immediately: saveChatMessages.
SaveUserMessage(r) ==
    /\ req[r].pc = "presave"
    /\ stored' = saveChatMessages(
                    req[r].existing
                    \o <<Row(req[r].newId, "user", Last(req[r].messages).parts)>>)
    /\ req' = [req EXCEPT ![r] = [@ EXCEPT !.pc = "ready", !.savedEarly = TRUE]]
    /\ UNCHANGED <<client, uuidCtr, pureVars, ragVars, extVars>>

\* No save before streaming: anonymous, no sessionId, or no new user message.
SkipUserSave(r) ==
    /\ req[r].pc = "received"
    /\ ~SavesUserMessage(client.user, client.sid, req[r].messages)
    /\ req' = [req EXCEPT ![r] = [@ EXCEPT !.pc = "ready"]]
    /\ UNCHANGED <<client, stored, uuidCtr, pureVars, ragVars, extVars>>

\* summarizeOlderMessages, trimMessages and streamText.
StartStream(r) ==
    /\ req[r].pc = "ready"
    /\ req' = [req EXCEPT ![r] =
          [@ EXCEPT !.pc = "streaming",
                    !.forwarded = ForwardedMessages(req[r].messages)]]
    /\ UNCHANGED <<client, stored, uuidCtr, pureVars, ragVars, extVars>>

\* onFinish of an authenticated user with a sessionId: the list is saved.
FinishAndSave(r) ==
    /\ req[r].pc = "streaming"
    /\ client.user /\ client.sid
    /\ \E responseParts \in ResponseShapes :
        LET allMessages ==
                AllMessages(OriginalMessages(req[r].messages, req[r].forwarded),
                            SdkId(0 - r), responseParts)
        IN /\ stored' = saveChatMessages(MessagesToSave(allMessages, uuidCtr))
           /\ uuidCtr' = uuidCtr + FreshBefore(allMessages, Len(allMessages))
           /\ req' = [req EXCEPT ![r] =
                 [@ EXCEPT !.pc = "done",
                           !.response = responseParts,
                           !.drawn = uuidCtr,
                           !.written = MessagesToSave(allMessages, uuidCtr)]]
    /\ UNCHANGED <<client, pureVars, ragVars, extVars>>

\* onFinish without user or sessionId: nothing is saved.
FinishNoSave(r) ==
    /\ req[r].pc = "streaming"
    /\ ~(client.user /\ client.sid)
    /\ req' = [req EXCEPT ![r] = [@ EXCEPT !.pc = "done"]]
    /\ UNCHANGED <<client, stored, uuidCtr, pureVars, ragVars, extVars>>

NextChat ==
    \E r \in Reqs :
        \/ Receive(r)
        \/ ReadExisting(r)
        \/ SaveUserMessage(r)
        \/ SkipUserSave(r)
        \/ StartStream(r)
        \/ FinishAndSave(r)
        \/ FinishNoSave(r)

Spec == InitChat /\ [][NextChat]_vars

\* The chat handler on a session that already holds two turns.
InitHistory ==
    /\ client \in [user : BOOLEAN, sid : {TRUE}]
    /\ stored = StoredHistory
    /\ uuidCtr = 0
    /\ req = [r \in Reqs |-> IdleRequest]
    /\ pMessages = <<>> /\ pMaxTokens = 0 /\ pResult = <<>> /\ pOp = "off" /\ csv = <<>>
    /\ ragSession = FALSE /\ ragRows = {} /\ endpointHits = 0 /\ call = <<>>
    /\ gate = <<>> /\ ep = <<>> /\ toolCall = <<>> /\ images = {} /\ events = {}

SpecHistory == InitHistory /\ [][NextChat]_vars

(***************************************************************************)
(* Claims about the chat request handler                                   *)
(***************************************************************************)
IncompleteTool(p) == IsToolType(p.type) /\ ~p.out /\ ~p.res

CarriesImage(p) ==
    \/ p.type = "image"
    \/ p.type = "tool-generateImage" /\ (p.outImg \/ p.resImg)

PartsOf(msgs) ==
    UNION {{msgs[i].parts[j] : j \in 1..Len(msgs[i].parts)} : i \in 1..Len(msgs)}

StoredParts ==
    UNION {{stored[i].content[j] : j \in 1..Len(stored[i].content)} :
             i \in 1..Len(stored)}

\* The parts of the messages some request has handed to streamText.
ForwardedParts ==
    UNION {PartsOf(req[r].forwarded) :
             r \in {q \in Reqs : req[q].pc \in {"streaming", "done"}}}

\* C2: no message written to storage by the chat handler contains a tool-*
\* part whose output and result are both null or undefined, for user-role
\* and assistant-role messages alike.
C2_NoIncompleteToolPartStored ==
    \A p \in StoredParts : ~IncompleteTool(p)

\* C6: on both request paths every message forwarded to the model contains
\* only text parts and tool-* parts that carry a non-null output or result.
C6_ForwardedOnlyTextAndCompleteTools ==
    \A p \in ForwardedParts :
        p.type = "text" \/ (IsToolType(p.type) /\ (p.out \/ p.res))

\* C7: no message forwarded to the model and no message written to storage
\* carries a base64 image payload: no part of type image and no
\* tool-generateImage part whose result or output holds imageData.
C7_NoImagePayloadForwardedOrStored ==
    \A p \in ForwardedParts \cup StoredParts : ~CarriesImage(p)

\* C8: no message forwarded to the model contains a provider response
\* identifier, for messages reloaded from storage and for messages taken
\* from the frontend.
C8_NoResponseIdentifierForwarded ==
    \A p \in ForwardedParts : ~p.rsid

\* C9: within one chat request no saveChatMessages call happens before the
\* model stream has finished (onFinish).
C9_NoSaveBeforeFinish ==
    \A r \in Reqs : req[r].pc # "done" => ~req[r].savedEarly

\* C10: after a completed turn of an authenticated user with a sessionId
\* (no other request of the session handled at the same time) the list
\* written is exactly the prior conversation followed by the new user
\* message and the assistant response, each stored exactly once.
C10_StoredIsPriorPlusTurn ==
    \A r \in Reqs :
        ( /\ req[r].pc = "done"
          /\ client.user /\ client.sid
          /\ ~req[r].overlap
          /\ Len(req[r].frontend) > 0
          /\ Last(req[r].frontend).role = "user" ) =>
        LET w == req[r].written
            p == req[r].prior
        IN /\ Len(w) = Len(p) + 2
           /\ SubSeq(w, 1, Len(p)) = p
           /\ w[Len(p) + 1].role = "user"
           /\ w[Len(p) + 1].content = Last(req[r].messages).parts
           /\ w[Len(p) + 2].role = "assistant"

\* Other frontend lists ending in the same newest message: the earlier
\* messages replaced by one or two messages the client made up.
ForgedEarlier ==
    { Msg(SdkId(91), "user", <<TextPart(48000), ImagePart>>),
      Msg(SdkId(92), "assistant", <<ToolOpen, TextRs, ImageOut>>) }

OtherFrontends(frontendMessages) ==
    { <<a>> \o <<Last(frontendMessages)>> : a \in ForgedEarlier }
    \cup { <<f[1], f[2]>> \o <<Last(frontendMessages)>> :
              f \in {g \in [1..2 -> ForgedEarlier] : g[1] # g[2]} }

\* C11: for a request with a sessionId and more than one frontend message
\* the history comes from storage: a request with the same stored history
\* and the same last frontend message but other earlier frontend messages
\* has the same message list, forwards the same messages to the model and
\* persists the same messages.
C11_HistoryFromStorageNotFrontend ==
    \A r \in Reqs :
        (req[r].pc # "idle" /\ client.sid /\ Len(req[r].frontend) > 1) =>
        \A f2 \in OtherFrontends(req[r].frontend) :
            LET m2 == RequestMessages(client.sid, f2, req[r].loaded)
            IN /\ m2 = req[r].messages
               /\ req[r].pc \in {"streaming", "done"} =>
                      ForwardedMessages(m2) = req[r].forwarded
               /\ (req[r].pc = "done" /\ client.user) =>
                      MessagesToSave(AllMessages(m2, SdkId(0 - r), req[r].response),
                                     req[r].drawn) = req[r].written

C11_Witness ==
    \E r \in Reqs :
        /\ req[r].pc = "done" /\ client.sid /\ client.user
        /\ Len(req[r].frontend) > 1
        /\ Len(req[r].loaded) > 0
        /\ \E f2 \in OtherFrontends(req[r].frontend) : f2 # req[r].frontend
        /\ Len(req[r].written) > Len(req[r].loaded)

RowIds(rows) == {rows[i].id : i \in 1..Len(rows)}

\* C12: persistence is idempotent under replay: when the user message saved
\* before streaming is saved again by onFinish, the stored list keeps that
\* message with the same id, role and content.
C12_ReplayKeepsStoredIds ==
    \A r \in Reqs :
        ( /\ req[r].pc = "done"
          /\ req[r].savedEarly
          /\ ~req[r].overlap
          /\ stored = req[r].written ) =>
        \E i \in 1..Len(stored) :
            /\ stored[i].id = req[r].newId
            /\ stored[i].role = "user"
            /\ stored[i].content = Last(req[r].messages).parts

\* C27: summarization and trimming change only what is sent to the model:
\* the list onFinish persists has one row for every message of the
\* unsummarized, untrimmed list, in its order, with its role, its id when
\* that is a UUID and its filtered content, followed by the response.
C27_PersistedFromUnsummarizedList ==
    \A r \in Reqs :
        (req[r].pc = "done" /\ client.user /\ client.sid) =>
        LET m == req[r].messages
            w == req[r].written
            continued == Len(m) > 0 /\ Last(m).role = "assistant"
        IN /\ Len(w) = IF continued THEN Len(m) ELSE Len(m) + 1
           /\ \A i \in 1..Len(m) :
                 /\ w[i].role = m[i].role
                 /\ m[i].id.kind = "uuid" => w[i].id = m[i].id
                 /\ (i < Len(m) \/ ~continued) => w[i].content = ContentToSave(m[i])
           /\ ~continued => w[Len(w)].role = "assistant"

C27_Witness ==
    \E r \in Reqs :
        /\ req[r].pc = "done" /\ client.user /\ client.sid
        /\ Len(req[r].messages) = 5
        /\ Len(req[r].forwarded) = 4
        /\ Len(req[r].written) = 6
        /\ stored = req[r].written

\* The ids of the rows in their order.
RowIdSeq(rows) == [i \in 1..Len(rows) |-> rows[i].id]

\* a is b with some elements left out.
RECURSIVE IsSubSeq(_, _)
IsSubSeq(a, b) ==
    IF a = <<>> THEN TRUE
    ELSE IF b = <<>> THEN FALSE
    ELSE IF Head(a) = Head(b) THEN IsSubSeq(Tail(a), Tail(b))
    ELSE IsSubSeq(a, Tail(b))

\* C28: a chat request never removes previously stored messages of its
\* session: for every request of an authenticated user with a sessionId,
\* whatever the number of frontend messages and also when the history read
\* returns no data, every message stored before the request is still
\* stored, in the same relative order, after the onFinish save (shown for
\* requests handled alone).
C28_PriorMessagesStillStored ==
    \A r \in Reqs :
        ( /\ req[r].pc = "done"
          /\ client.user /\ client.sid
          /\ ~req[r].overlap ) =>
        IsSubSeq(RowIdSeq(req[r].prior), RowIdSeq(req[r].written))

\* The user row and the assistant row of the turn of request r are stored.
TurnStored(r) ==
    /\ \E i \in 1..Len(stored) :
          /\ stored[i].role = "user"
          /\ stored[i].content \in {Last(req[r].messages).parts,
                                    ContentToSave(Last(req[r].messages))}
    /\ \E i \in 1..Len(stored) :
          /\ stored[i].role = "assistant"
          /\ stored[i].content =
                ContentToSave(Msg(SdkId(0 - r), "assistant", req[r].response))

\* C29: when two chat requests of the same session interleave, no update is
\* lost: once both turns have completed, the stored list contains the user
\* message and the assistant response of both (shown for requests that carry
\* several frontend messages and whose history read succeeded).
C29_NoLostUpdate ==
    ( /\ client.user /\ client.sid
      /\ \A r \in Reqs :
            /\ req[r].pc = "done"
            /\ req[r].overlap
            /\ Len(req[r].frontend) > 1
            /\ req[r].loaded = req[r].prior
            /\ Last(req[r].frontend).role = "user" ) =>
    \A r \in Reqs : TurnStored(r)

(***************************************************************************)
(* The chat request handler: refusals and the catch block                  *)
(***************************************************************************)
UpperCase == <<"A", "B", "C", "D", "E", "F", "G", "H", "I", "J", "K", "L", "M", "N", "O", "P", "Q", "R", "S", "T", "U", "V", "W", "X", "Y", "Z">>
LowerCase == <<"a", "b", "c", "d", "e", "f", "g", "h", "i", "j", "k", "l", "m", "n", "o", "p", "q", "r", "s", "t", "u", "v", "w", "x", "y", "z">>

\* Mutant of toLowerCase: the string is left as it is.
toLowerCaseNot(str) == str

\* String.prototype.toLowerCase on a string given as its characters.
toLowerCase(str) ==
    [i \in 1..Len(str) |->
        IF \E k \in 1..Len(UpperCase) : UpperCase[k] = str[i]
        THEN LowerCase[CHOOSE k \in 1..Len(UpperCase) : UpperCase[k] = str[i]]
        ELSE str[i]]

\* String.prototype.includes
includes(str, sub) ==
    \E i \in 0..(Len(str) - Len(sub)) : SubSeq(str, i + 1, i + Len(sub)) = sub

FallbackMessage == <<"A", "n", " ", "u", "n", "e", "x", "p", "e", "c", "t", "e", "d", " ", "e", "r", "r", "o", "r", " ", "o", "c", "c", "u", "r", "r", "e", "d">>

\* errorMessage: the message of an Error, a thrown string itself, the
\* fallback text for any other thrown value.
ErrorMessage(thrown) ==
    IF thrown.kind = "Error" THEN thrown.message
    ELSE IF thrown.kind = "string" THEN thrown.message
    ELSE FallbackMessage

isToolError(errorMessage) ==
    \/ includes(toLowerCase(errorMessage), <<"t", "o", "o", "l">>)
    \/ includes(toLowerCase(errorMessage), <<"f", "u", "n", "c", "t", "i", "o", "n">>)

isThinkingError(errorMessage) ==
    includes(toLowerCase(errorMessage), <<"t", "h", "i", "n", "k", "i", "n", "g">>)

Envelope(status, error) == [status |-> status, error |-> error]

\* The response built by the catch block.
CatchResponse(thrown) ==
    IF isToolError(ErrorMessage(thrown)) \/ isThinkingError(ErrorMessage(thrown))
    THEN Envelope(400, "MODEL_COMPATIBILITY_ERROR")
    ELSE Envelope(500, "CHAT_ERROR")

\* The messages of the values thrown inside the handler.
ThrownMessages ==
    { <<"T", "o", "o", "l", " ", "x">>,
      <<"n", "o", " ", "F", "U", "N", "C", "T", "I", "O", "N">>,
      <<"T", "h", "i", "n", "k", "i", "n", "g">>,
      <<"s", "t", "o", "o", "l">>,
      <<"t", "i", "m", "e", "o", "u", "t">>,
      <<"t", "h", "i", "n", " ", "k", "i", "n", "g">>,
      <<>> }

NotThrown == [kind |-> "none", message |-> <<>>]

ThrownValues ==
    { [kind |-> k, message |-> m] : k \in {"Error", "string"}, m \in ThrownMessages }
    \cup { [kind |-> "other", message |-> <<>>] }

\* The handler's steps that await an external call outside an inner
\* try/catch: request body and history, user, access validation, rate limit,
\* model selection with the save before streaming and streamText.
AwaitingSteps == {"load", "user", "access", "rate", "prepare"}

\* The roles of the request's messages after the reload or filtering.
GateMessages ==
    { <<>>,
      <<[role |-> "user"]>>,
      <<[role |-> "assistant"]>>,
      <<[role |-> "user"], [role |-> "assistant"]>>,
      <<[role |-> "assistant"], [role |-> "user"]>>,
      <<[role |-> "user"], [role |-> "user"]>>,
      <<[role |-> "user"], [role |-> "assistant"], [role |-> "user"]>> }

userMessageCount(messages) ==
    Cardinality({ i \in 1..Len(messages) : messages[i].role = "user" })

\* lastMessage?.role === 'user'
isUserMessage(messages) ==
    Len(messages) > 0 /\ messages[Len(messages)].role = "user"

\* isUserInitiated without the count of the user messages.
isUserInitiatedAnyCount(messages) == isUserMessage(messages)

\* isUserInitiated = isUserMessage && userMessageCount === 1
isUserInitiated(messages) ==
    isUserMessage(messages) /\ userMessageCount(messages) = 1

\* No validateAccess call was made.
NotValidated ==
    [checked |-> FALSE, hasAccess |-> FALSE, requiresPaymentSetup |-> FALSE]

InitGate ==
    /\ gate \in { [pc |-> "load", dev |-> d, user |-> u, sid |-> sid,
                   messages |-> m, initiated |-> FALSE,
                   access |-> NotValidated, rate |-> "none",
                   invoked |-> FALSE, written |-> FALSE, increments |-> 0,
                   finished |-> FALSE,
                   thrown |-> NotThrown, responses |-> <<>>] :
                     d \in BOOLEAN, u \in BOOLEAN, sid \in BOOLEAN,
                     m \in GateMessages }
    /\ pMessages = <<>> /\ pMaxTokens = 0 /\ pResult = <<>> /\ pOp = "off" /\ csv = <<>>
    /\ client = [user |-> FALSE, sid |-> FALSE]
    /\ stored = <<>> /\ uuidCtr = 0 /\ req = <<>>
    /\ ragSession = FALSE /\ ragRows = {} /\ endpointHits = 0 /\ call = <<>>
    /\ ep = <<>> /\ toolCall = <<>> /\ images = {} /\ events = {}

GateUnchanged == UNCHANGED <<pureVars, chatVars, ragVars, ep, toolCall, images, events>>

Responded(g, envelope) ==
    [g EXCEPT !.pc = "responded", !.responses = Append(@, envelope)]

Respond(envelope) == gate' = Responded(gate, envelope)

\* req.json() and the reload or filtering of the messages.
LoadRequest ==
    /\ gate.pc = "load"
    /\ gate' = [gate EXCEPT !.pc = "user",
                            !.initiated = isUserInitiated(gate.messages)]
    /\ GateUnchanged

\* db.getUser()
GetUser ==
    /\ gate.pc = "user"
    /\ gate' = [gate EXCEPT !.pc = "access"]
    /\ GateUnchanged

\* validateAccess for an authenticated user outside development mode.
ValidateAccess ==
    /\ gate.pc = "access"
    /\ IF gate.user /\ ~gate.dev
       THEN \E hasAccess \in BOOLEAN, requiresPaymentSetup \in BOOLEAN :
              LET validated == [gate EXCEPT !.access =
                                   [checked |-> TRUE, hasAccess |-> hasAccess,
                                    requiresPaymentSetup |-> requiresPaymentSetup]]
              IN IF ~hasAccess /\ requiresPaymentSetup
                 THEN gate' = Responded(validated, Envelope(402, "PAYMENT_REQUIRED"))
                 ELSE gate' = [validated EXCEPT !.pc = "rate"]
       ELSE gate' = [gate EXCEPT !.pc = "rate"]
    /\ GateUnchanged

\* checkAnonymousRateLimit / checkUserRateLimit for a user-initiated message
\* outside development mode.
CheckRateLimit ==
    /\ gate.pc = "rate"
    /\ IF gate.initiated /\ ~gate.dev
       THEN \E allowed \in BOOLEAN :
              IF ~allowed
              THEN Respond(Envelope(429, "RATE_LIMIT_EXCEEDED"))
              ELSE gate' = [gate EXCEPT !.pc = "prepare", !.rate = "allowed"]
       ELSE gate' = [gate EXCEPT !.pc = "prepare"]
    /\ GateUnchanged

\* Model selection, the save before streaming, streamText and
\* toUIMessageStreamResponse.
PrepareStream ==
    /\ gate.pc = "prepare"
    /\ gate' = [gate EXCEPT !.pc = "increment",
                            !.written = SavesUserMessage(gate.user, gate.sid,
                                                         gate.messages),
                            !.invoked = TRUE]
    /\ GateUnchanged

\* incrementRateLimit inside its own try/catch (a failure is logged and
\* ignored), the headers and return streamResponse.
ReturnStream ==
    /\ gate.pc = "increment"
    /\ LET counted == [gate EXCEPT !.increments =
                          IF gate.initiated /\ ~gate.dev /\ gate.user
                          THEN @ + 1 ELSE @]
       IN gate' = Responded(counted, Envelope(200, "stream"))
    /\ GateUnchanged

\* onFinish of the stream: with a user and a sessionId the messages are saved.
GateOnFinish ==
    /\ gate.pc = "responded" /\ ~gate.finished
    /\ gate.responses[1].status = 200
    /\ gate' = [gate EXCEPT !.finished = TRUE,
                            !.written = @ \/ (gate.user /\ gate.sid)]
    /\ GateUnchanged

\* An awaited call throws, or a statement of the step raises an exception.
Throw ==
    /\ gate.pc \in AwaitingSteps
    /\ \E thrown \in ThrownValues :
        gate' = [gate EXCEPT !.pc = "catch", !.thrown = thrown]
    /\ GateUnchanged

\* catch (error)
Catch ==
    /\ gate.pc = "catch"
    /\ Respond(CatchResponse(gate.thrown))
    /\ GateUnchanged

NextGate ==
    \/ LoadRequest \/ GetUser \/ ValidateAccess \/ CheckRateLimit
    \/ PrepareStream \/ ReturnStream \/ GateOnFinish \/ Throw \/ Catch

SpecGate == InitGate /\ [][NextGate]_vars

\* The message contains the word, whatever the case of its letters.
ContainsAnyCase(str, word) ==
    \E i \in 0..(Len(str) - Len(word)) :
        \A j \in 1..Len(word) :
            \E k \in 1..Len(LowerCase) :
                /\ LowerCase[k] = word[j]
                /\ str[i + j] \in {LowerCase[k], UpperCase[k]}

HasCompatibilityWord(str) ==
    \/ ContainsAnyCase(str, <<"t", "o", "o", "l">>)
    \/ ContainsAnyCase(str, <<"f", "u", "n", "c", "t", "i", "o", "n">>)
    \/ ContainsAnyCase(str, <<"t", "h", "i", "n", "k", "i", "n", "g">>)

ErrorEnvelopes ==
    { Envelope(402, "PAYMENT_REQUIRED"), Envelope(429, "RATE_LIMIT_EXCEEDED"),
      Envelope(400, "MODEL_COMPATIBILITY_ERROR"), Envelope(500, "CHAT_ERROR") }

\* C14: every chat request that fails returns exactly one error envelope of
\* the fixed set 402 PAYMENT_REQUIRED, 429 RATE_LIMIT_EXCEEDED, 400
\* MODEL_COMPATIBILITY_ERROR, 500 CHAT_ERROR; after a thrown error it is
\* MODEL_COMPATIBILITY_ERROR exactly when the error's message contains tool,
\* function or thinking in any case, and CHAT_ERROR otherwise; the handler
\* never ends in an exception.
C14_FailureGivesOneEnvelope ==
    /\ gate.pc \in AwaitingSteps \cup {"increment", "catch", "responded"}
    /\ Len(gate.responses) <= 1
    /\ gate.pc = "responded" =>
          /\ Len(gate.responses) = 1
          /\ gate.responses[1] \in ErrorEnvelopes \cup {Envelope(200, "stream")}
          /\ gate.thrown.kind # "none" =>
                gate.responses[1] =
                    IF HasCompatibilityWord(gate.thrown.message)
                    THEN Envelope(400, "MODEL_COMPATIBILITY_ERROR")
                    ELSE Envelope(500, "CHAT_ERROR")
          /\ gate.thrown.kind = "none" =>
                gate.responses[1].status \in {402, 429, 200}

C14_Witness ==
    /\ gate.pc = "responded"
    /\ gate.thrown.kind = "Error"
    /\ gate.thrown.message = <<"n", "o", " ", "F", "U", "N", "C", "T", "I", "O", "N">>
    /\ gate.responses = <<Envelope(400, "MODEL_COMPATIBILITY_ERROR")>>

\* The request was answered with 402 or 429.
Refused ==
    /\ gate.pc = "responded"
    /\ gate.responses[1].status \in {402, 429}

\* C24: the rate-limit counter is incremented at most once per chat request
\* and only in production mode, for an authenticated user, when the last
\* message has role user and exactly one message of the list has role user,
\* and after the access validation and the rate-limit check of this request
\* were made and did not refuse it; a request answered with 402 or 429 never
\* increments the counter, never invokes the model and never writes messages.
C24_IncrementOnlyForFirstUserMessage ==
    /\ gate.increments <= 1
    /\ gate.increments = 1 =>
          /\ ~gate.dev
          /\ gate.user
          /\ Len(gate.messages) > 0
          /\ gate.messages[Len(gate.messages)].role = "user"
          /\ Cardinality({ i \in 1..Len(gate.messages) :
                              gate.messages[i].role = "user" }) = 1
          /\ gate.access.checked
          /\ ~(~gate.access.hasAccess /\ gate.access.requiresPaymentSetup)
          /\ gate.rate = "allowed"
          /\ ~Refused
    /\ Refused => gate.increments = 0 /\ ~gate.invoked /\ ~gate.written

C24_Witness ==
    /\ gate.increments = 1
    /\ gate.finished /\ gate.written
    /\ gate.messages = <<[role |-> "assistant"], [role |-> "user"]>>

(***************************************************************************)
(* olympiaRAGSearch and POST /api/eco-rag                                  *)
(***************************************************************************)
Calls == 1..MaxCalls

\* pc: idle, fetching, responded, done, blocked (limit-reached message) or
\* error; outcome: what the endpoint answered. The context id generated for
\* invocation c is c.
IdleCall == [pc |-> "idle", outcome |-> "none"]

InitRag ==
    /\ ragSession \in BOOLEAN
    /\ ragRows = {}
    /\ endpointHits = 0
    /\ call = [c \in Calls |-> IdleCall]
    /\ pMessages = <<>> /\ pMaxTokens = 0 /\ pResult = <<>> /\ pOp = "off" /\ csv = <<>>
    /\ client = [user |-> FALSE, sid |-> FALSE]
    /\ stored = <<>> /\ uuidCtr = 0 /\ req = <<>>
    /\ gate = <<>> /\ ep = <<>> /\ toolCall = <<>> /\ images = {} /\ events = {}

\* db.countRagContextsForSession(sessionId): the number of rows of the
\* session.
countRagContextsForSession(rows) == Cardinality(rows)

\* db.createRagContext(row): the row is added.
createRagContext(rows, id) == rows \cup {id}

\* getRAGContext.execute: db.getRagContext(contextId) and the answer built
\* from the row, or the not-found error.
getRAGContext(rows, contextId) ==
    IF contextId \in rows THEN "rag_context_retrieved" ELSE "rag_context_error"

\* ragCallCount >= MAX_RAG_CALLS_PER_SESSION, where a failed count query
\* leaves ragCallCount null (count -1 here) and the comparison false.
LimitReached(count) == count >= MAX_RAG_CALLS_PER_SESSION

\* execute: the limit check. With a sessionId the rows are counted and the
\* call is answered with the limit-reached message at 4 or more; without a
\* sessionId nothing is checked.
CheckLimit(c) ==
    /\ call[c].pc = "idle"
    /\ \A d \in Calls : d < c => call[d].pc # "idle"
    /\ \E countOk \in BOOLEAN :
        /\ countOk \/ ragSession
        /\ LET count == IF ragSession /\ countOk
                        THEN countRagContextsForSession(ragRows)
                        ELSE 0 - 1
           IN call' = [call EXCEPT ![c] =
                 [@ EXCEPT !.pc = IF ragSession /\ LimitReached(count)
                                  THEN "blocked" ELSE "fetching"]]
    /\ UNCHANGED <<ragSession, ragRows, endpointHits, pureVars, chatVars, extVars>>

\* fetch(/api/eco-rag) and the endpoint's handling of the request: embedding,
\* vector query, and with results compression and, with a sessionId, the
\* storage of the context, whose failure is swallowed.
PostEcoRag(c) ==
    /\ call[c].pc = "fetching"
    /\ endpointHits' = endpointHits + 1
    /\ \E outcome \in {"results", "empty", "failed"}, storeOk \in BOOLEAN :
        /\ storeOk \/ (outcome = "results" /\ ragSession)
        /\ IF outcome = "failed"
           THEN /\ call' = [call EXCEPT ![c] = [@ EXCEPT !.pc = "error"]]
                /\ UNCHANGED ragRows
           ELSE /\ ragRows' = IF outcome = "results" /\ ragSession /\ storeOk
                              THEN createRagContext(ragRows, c)
                              ELSE ragRows
                /\ call' = [call EXCEPT ![c] =
                      [@ EXCEPT !.pc = "responded", !.outcome = outcome]]
    /\ UNCHANGED <<ragSession, pureVars, chatVars, extVars>>

\* execute: track, the count after the search and the result returned.
ReturnResult(c) ==
    /\ call[c].pc = "responded"
    /\ call' = [call EXCEPT ![c] = [@ EXCEPT !.pc = "done"]]
    /\ UNCHANGED <<ragSession, ragRows, endpointHits, pureVars, chatVars, extVars>>

NextRag == \E c \in Calls : CheckLimit(c) \/ PostEcoRag(c) \/ ReturnResult(c)

SpecRag == InitRag /\ [][NextRag]_vars

(***************************************************************************)
(* Claims about the RAG search limit                                       *)
(***************************************************************************)
\* C3: for every interleaving of olympiaRAGSearch invocations the number of
\* RagContext rows stored for the session never exceeds 4.
C3_AtMostFourContextsStored ==
    Cardinality(ragRows) <= MAX_RAG_CALLS_PER_SESSION

\* C4: in any one conversation at most 4 olympiaRAGSearch invocations reach
\* the retrieval endpoint, with or without a sessionId, whatever the search
\* returned and whether or not storage or the count query succeeded.
C4_AtMostFourEndpointRequests ==
    endpointHits <= MAX_RAG_CALLS_PER_SESSION

\* C23: once an olympiaRAGSearch invocation of a session has been answered
\* with the limit-reached message, every later invocation of the session is
\* answered with it too, and a blocked invocation sends no request to the
\* retrieval endpoint and creates no RagContext.
C23_LimitReachedIsSticky ==
    \A c \in Calls :
        call[c].pc = "blocked" =>
            /\ call[c].outcome = "none"
            /\ c \notin ragRows
            /\ \A d \in Calls :
                  (c < d /\ call[d].pc # "idle") => call[d].pc = "blocked"

\* C13: every context_id returned by an olympiaRAGSearch invocation that did
\* not fail refers to a stored RagContext: getRAGContext on it answers with
\* the stored search rather than with the not-found error.
C13_ReturnedContextIdIsStored ==
    \A c \in Calls :
        call[c].pc = "done" => getRAGContext(ragRows, c) = "rag_context_retrieved"

(***************************************************************************)
(* POST /api/eco-rag, request by request                                   *)
(***************************************************************************)
WhiteSpace == {" ", "\t", "\n"}

\* Mutant of trim: nothing is removed.
trimNot(str) == str

\* String.prototype.trim on a string given as its characters.
trim(str) ==
    LET inner == {i \in 1..Len(str) : str[i] \notin WhiteSpace}
    IN IF inner = {} THEN <<>>
       ELSE SubSeq(str, CHOOSE i \in inner : \A j \in inner : i <= j,
                        CHOOSE i \in inner : \A j \in inner : j <= i)

\* The query of the request body: absent, or a string.
NoQuery == [present |-> FALSE, chars |-> <<>>]
Query(chars) == [present |-> TRUE, chars |-> chars]

\* !query || query.trim().length === 0
QueryRejected(query) ==
    \/ ~query.present
    \/ Len(query.chars) = 0
    \/ Len(trim(query.chars)) = 0

EpQueries ==
    { NoQuery, Query(<<>>), Query(<<" ">>), Query(<<" ", "\t", "\n">>),
      Query(<<"p", "a", "r", "k", "s">>), Query(<<" ", "a", " ", "b", " ">>) }

EpError(status, error) ==
    [status |-> status, error |-> error, context_id |-> 0,
     summary |-> "", sources |-> 0]

\* The 200 response: context id, compressed summary, number of sources.
EpOk(contextId, summary, sources) ==
    [status |-> 200, error |-> "", context_id |-> contextId,
     summary |-> summary, sources |-> sources]

\* ctx_<time>_<random>: the id generated for the n-th request.
ContextId(n) == 100 + n

IdleEp ==
    [pc |-> "idle", n |-> 0, query |-> NoQuery, sid |-> FALSE, found |-> 0,
     embeddings |-> 0, vectorQueries |-> 0, compressions |-> 0, stores |-> 0,
     storeFailed |-> FALSE, calls |-> <<>>, failedAt |-> "none",
     response |-> EpError(0, "")]

EpUnchanged == UNCHANGED <<pureVars, chatVars, ragSession, endpointHits, call,
                           gate, toolCall, images, events>>

EpRespond(r) == ep' = [ep EXCEPT !.pc = "responded", !.response = r]

\* Mutant of AfterStore: a failed storage surfaces as the 500 answer.
AfterStoreSurfaced(storeOk) == IF storeOk THEN "respond" ELSE "failed"

\* The try/catch around createRagContext: the handler continues either way.
AfterStore(storeOk) == "respond"

\* Mutant of StoresContext: the context is stored without a sessionId too.
StoresContextAlways(sid) == TRUE

\* if (sessionId) { ... db.createRagContext ... }
StoresContext(sid) == sid

\* req.json(), the query check and the API key check.
EpReceive ==
    /\ ep.pc \in {"idle", "responded"}
    /\ ep.n < MaxEpRuns
    /\ toolCall.pc \in {"idle", "done"}
    /\ \E query \in EpQueries, sid \in BOOLEAN, keyOk \in BOOLEAN :
        LET fresh == [IdleEp EXCEPT !.n = ep.n + 1, !.query = query, !.sid = sid]
        IN ep' = IF QueryRejected(query)
                 THEN [fresh EXCEPT !.pc = "responded",
                          !.response = EpError(400, "Query parameter is required")]
                 ELSE IF ~keyOk
                 THEN [fresh EXCEPT !.pc = "responded",
                          !.response = EpError(500, "OpenAI API key not configured")]
                 ELSE [fresh EXCEPT !.pc = "embed"]
    /\ UNCHANGED ragRows
    /\ EpUnchanged

\* Step 1: generateQueryEmbedding
EpEmbed ==
    /\ ep.pc = "embed"
    /\ \E ok \in BOOLEAN :
        ep' = IF ok
              THEN [ep EXCEPT !.pc = "vectors", !.embeddings = @ + 1,
                              !.calls = Append(@, "embed")]
              ELSE [ep EXCEPT !.pc = "failed", !.embeddings = @ + 1,
                              !.calls = Append(@, "embed"),
                              !.failedAt = "embed"]
    /\ UNCHANGED ragRows
    /\ EpUnchanged

\* Step 2: queryVectors, and the answer given when nothing was found.
EpQueryVectors ==
    /\ ep.pc = "vectors"
    /\ \E outcome \in {"results", "empty", "failed"} :
        ep' = IF outcome = "failed"
              THEN [ep EXCEPT !.pc = "failed", !.vectorQueries = @ + 1,
                              !.calls = Append(@, "vectors"),
                              !.failedAt = "vectors"]
              ELSE IF outcome = "empty"
              THEN [ep EXCEPT !.pc = "responded", !.vectorQueries = @ + 1,
                              !.calls = Append(@, "vectors"),
                              !.response = EpOk(ContextId(ep.n), "nothing found", 0)]
              ELSE [ep EXCEPT !.pc = "compress", !.vectorQueries = @ + 1,
                              !.calls = Append(@, "vectors"),
                              !.found = TopK]
    /\ UNCHANGED ragRows
    /\ EpUnchanged

\* Step 3: compressContext
EpCompress ==
    /\ ep.pc = "compress"
    /\ \E ok \in BOOLEAN :
        ep' = IF ok
              THEN [ep EXCEPT !.pc = "store", !.compressions = @ + 1,
                              !.calls = Append(@, "compress")]
              ELSE [ep EXCEPT !.pc = "failed", !.compressions = @ + 1,
                              !.calls = Append(@, "compress"),
                              !.failedAt = "compress"]
    /\ UNCHANGED ragRows
    /\ EpUnchanged

\* Step 5: the context is stored when the request carries a sessionId.
EpStore ==
    /\ ep.pc = "store"
    /\ \E storeOk \in BOOLEAN :
        /\ storeOk \/ StoresContext(ep.sid)
        /\ ragRows' = IF StoresContext(ep.sid) /\ storeOk
                       THEN createRagContext(ragRows, ContextId(ep.n))
                       ELSE ragRows
        /\ ep' = [ep EXCEPT !.pc = AfterStore(storeOk),
                            !.stores = IF StoresContext(ep.sid) THEN @ + 1 ELSE @,
                            !.calls = IF StoresContext(ep.sid)
                                      THEN Append(@, "store") ELSE @,
                            !.storeFailed = ~storeOk]
    /\ EpUnchanged

\* return Response.json({context_id, compressed_summary, sources, ...})
EpReturn ==
    /\ ep.pc = "respond"
    /\ EpRespond(EpOk(ContextId(ep.n), "compressed", ep.found))
    /\ UNCHANGED ragRows
    /\ EpUnchanged

\* catch (error): the 500 answer.
EpCatch ==
    /\ ep.pc = "failed"
    /\ EpRespond(EpError(500, "RAG query failed"))
    /\ UNCHANGED ragRows
    /\ EpUnchanged


(***************************************************************************)
(* The tools generateImage, codeExecution and webSearch, and               *)
(* GET /api/images/[imageId]                                               *)
(***************************************************************************)
Tools == {"generateImage", "codeExecution", "webSearch"}

\* b64_json as returned by the image API and Buffer.from(data, 'base64').
ToBase64(png) == [b64 |-> png]
FromBase64(data) == data.b64

NoImageUrl == [path |-> "undefined", id |-> 0]
ImageUrl(imageId) == [path |-> "/api/images/", id |-> imageId]

TextResult(text) == [text |-> text]

\* Mutant of GenerateImageResult: the base64 payload is returned as well.
GenerateImageResultWithData(imageId, data) ==
    [success |-> TRUE, imageId |-> imageId, imageData |-> data,
     imageUrl |-> IF imageId # 0 THEN ImageUrl(imageId) ELSE NoImageUrl,
     prompt |-> "prompt", revisedPrompt |-> "revised", size |-> "1024x1024",
     quality |-> "medium", background |-> "opaque", title |-> "Generated Image",
     executionTime |-> 1,
     _instructions |-> IF imageId # 0 THEN "display" ELSE "not saved"]

\* The value generateImage returns; imageId 0 stands for null / undefined.
GenerateImageResult(imageId, data) ==
    [success |-> TRUE, imageId |-> imageId,
     imageUrl |-> IF imageId # 0 THEN ImageUrl(imageId) ELSE NoImageUrl,
     prompt |-> "prompt", revisedPrompt |-> "revised", size |-> "1024x1024",
     quality |-> "medium", background |-> "opaque", title |-> "Generated Image",
     executionTime |-> 1,
     _instructions |-> IF imageId # 0 THEN "display" ELSE "not saved"]

\* The value a tool returns after its tracking steps.
ToolResult(tc) ==
    IF tc.tool = "generateImage" THEN GenerateImageResult(tc.imageId, tc.data)
    ELSE IF tc.tool = "codeExecution"
         THEN (IF tc.exitCode = 0 THEN TextResult("Python Code Execution")
               ELSE TextResult("Execution Error"))
    ELSE TextResult("web_search")

\* userId && sessionId && userTier === 'pay_per_use' && !isDevelopment, and
\* for codeExecution also execution.exitCode === 0
PolarDue(tc) ==
    /\ tc.user /\ tc.sid /\ tc.tier = "pay_per_use" /\ ~tc.dev
    /\ tc.tool = "codeExecution" => tc.exitCode = 0

Event(kind, tool) == [kind |-> kind, tool |-> tool]

NotFetched == [id |-> 0, status |-> 0, body |-> "none"]

IdleTool ==
    [pc |-> "idle", n |-> 0, tool |-> "none", user |-> FALSE, sid |-> FALSE,
     tier |-> "free", imageId |-> 0, png |-> "none", data |-> ToBase64("none"),
     exitCode |-> 0, polar |-> "skipped", result |-> TextResult(""),
     fetched |-> NotFetched, dev |-> FALSE,
     codeLen |-> 0, config |-> "unchecked", sandbox |-> FALSE, created |-> 0,
     deleteRequests |-> 0, deleteFailed |-> FALSE, after |-> "none"]

InitTools ==
    /\ toolCall \in { [IdleTool EXCEPT !.dev = d] : d \in BOOLEAN }
    /\ ep = IdleEp
    /\ images = {}
    /\ events = {}
    /\ ragRows = {}
    /\ gate = <<>>
    /\ pMessages = <<>> /\ pMaxTokens = 0 /\ pResult = <<>> /\ pOp = "off" /\ csv = <<>>
    /\ client = [user |-> FALSE, sid |-> FALSE]
    /\ stored = <<>> /\ uuidCtr = 0 /\ req = <<>>
    /\ ragSession = FALSE /\ endpointHits = 0 /\ call = <<>>

ToolUnchanged == UNCHANGED <<pureVars, chatVars, ragVars, gate, ep>>

\* Mutant of AfterPolar: a failed usage event surfaces as the tool's error.
AfterPolarSurfaced(ok) == IF ok THEN "return" ELSE "caught"

\* The try/catch around the Polar usage event: the tool continues either way.
AfterPolar(ok) == "return"

\* code.length of the codeExecution input: at the limit and one above it.
CodeLengths == {MaxCodeLength, MaxCodeLength + 1}

\* Mutant of AfterCodeRun: an exception of codeRun leaves without the finally.
AfterCodeRunNoFinally(outcome) == IF outcome = "throws" THEN "caught" ELSE "track"

\* try { ... codeRun ... } finally { sandbox.delete() }: an exception of
\* codeRun passes through the finally block.
AfterCodeRun(outcome) == IF outcome = "throws" THEN "cleanup" ELSE "track"

\* The model invokes a tool; experimental_context gives user, session, tier.
ToolStart ==
    /\ toolCall.pc \in {"idle", "done"}
    /\ toolCall.n < MaxToolRuns
    /\ ep.pc \in {"idle", "responded"}
    /\ \E tool \in Tools, user \in BOOLEAN, sid \in BOOLEAN,
          tier \in {"free", "pay_per_use"}, codeLen \in CodeLengths \cup {0} :
        /\ (tool = "codeExecution") = (codeLen # 0)
        /\ toolCall' = [IdleTool EXCEPT !.dev = toolCall.dev, !.pc = "call",
                        !.n = toolCall.n + 1, !.tool = tool, !.user = user,
                        !.sid = sid, !.tier = tier, !.codeLen = codeLen]
    /\ UNCHANGED <<images, events>>
    /\ ToolUnchanged

\* codeExecution: the length check and the checks of DAYTONA_API_KEY and
\* DAYTONA_API_URL.
CodeCheck ==
    /\ toolCall.pc = "call"
    /\ toolCall.tool = "codeExecution"
    /\ \E keyOk \in BOOLEAN, urlOk \in BOOLEAN :
        toolCall' =
            IF toolCall.codeLen > MaxCodeLength
            THEN [toolCall EXCEPT !.pc = "done",
                                  !.result = TextResult("Code too long")]
            ELSE IF ~keyOk
            THEN [toolCall EXCEPT !.pc = "done", !.config = "nokey",
                                  !.result = TextResult("Configuration Error")]
            ELSE IF ~urlOk
            THEN [toolCall EXCEPT !.pc = "done", !.config = "nourl",
                                  !.result = TextResult("Configuration Error")]
            ELSE [toolCall EXCEPT !.pc = "create", !.config = "ok"]
    /\ UNCHANGED <<images, events>>
    /\ ToolUnchanged

\* sandbox = await daytona.create({ language: 'python' })
SandboxCreate ==
    /\ toolCall.pc = "create"
    /\ \E ok \in BOOLEAN :
        toolCall' =
            IF ok
            THEN [toolCall EXCEPT !.pc = "run", !.sandbox = TRUE,
                                  !.created = @ + 1]
            ELSE [toolCall EXCEPT !.pc = "cleanup", !.after = "caught"]
    /\ UNCHANGED <<images, events>>
    /\ ToolUnchanged

\* execution = await sandbox.process.codeRun(code)
SandboxRun ==
    /\ toolCall.pc = "run"
    /\ \E outcome \in {"ok", "bad", "throws"} :
        toolCall' = [toolCall EXCEPT
                        !.pc = AfterCodeRun(outcome),
                        !.after = IF outcome = "throws" THEN "caught" ELSE @,
                        !.exitCode = IF outcome = "bad" THEN 1 ELSE 0]
    /\ UNCHANGED <<images, events>>
    /\ ToolUnchanged

\* finally { try { if (sandbox) await sandbox.delete() } catch { log } }
SandboxDelete ==
    /\ toolCall.pc = "cleanup"
    /\ \E ok \in BOOLEAN :
        /\ ok \/ toolCall.sandbox
        /\ toolCall' = [toolCall EXCEPT
                           !.pc = toolCall.after,
                           !.deleteRequests = IF toolCall.sandbox THEN @ + 1 ELSE @,
                           !.deleteFailed = ~ok]
    /\ UNCHANGED <<images, events>>
    /\ ToolUnchanged

\* The configuration checks and the one hosted call of the tool:
\* openai.images.generate or valyu.search.
ToolCallExternal ==
    /\ toolCall.pc = "call"
    /\ toolCall.tool # "codeExecution"
    /\ \E outcome \in {"ok", "bad", "throws", "nokey"}, png \in {"pngA", "pngB"} :
        /\ toolCall.tool = "webSearch" => outcome \in {"ok", "throws"}
        /\ toolCall.tool # "generateImage" => png = "pngA"
        /\ outcome # "ok" => png = "pngA"
        /\ toolCall' =
              IF outcome = "nokey"
              THEN [toolCall EXCEPT !.pc = "done",
                                    !.result = TextResult("Configuration Error")]
              ELSE IF outcome = "throws"
              THEN [toolCall EXCEPT !.pc = "caught"]
              ELSE IF toolCall.tool = "generateImage"
              THEN (IF outcome = "bad"
                    THEN [toolCall EXCEPT !.pc = "done",
                                          !.result = TextResult("No image was generated")]
                    ELSE [toolCall EXCEPT !.pc = "save", !.png = png,
                                          !.data = ToBase64(png)])
              ELSE [toolCall EXCEPT !.pc = "track"]
    /\ UNCHANGED <<images, events>>
    /\ ToolUnchanged

\* generateImage: db.createImage under randomUUID(); a failure leaves
\* imageId null.
ToolSaveImage ==
    /\ toolCall.pc = "save"
    /\ \E saveOk \in BOOLEAN :
        /\ images' = IF saveOk
                      THEN images \cup {[id |-> toolCall.n, image_data |-> toolCall.data]}
                      ELSE images
        /\ toolCall' = [toolCall EXCEPT !.pc = "track",
                            !.imageId = IF saveOk THEN toolCall.n ELSE 0]
    /\ UNCHANGED events
    /\ ToolUnchanged

\* await track(...): the analytics event; an exception reaches the tool's
\* outer catch.
ToolTrack ==
    /\ toolCall.pc = "track"
    /\ \E ok \in BOOLEAN :
        IF ok
        THEN /\ events' = events \cup {Event("analytics", toolCall.tool)}
             /\ toolCall' = [toolCall EXCEPT !.pc = "polar"]
        ELSE /\ toolCall' = IF toolCall.tool = "codeExecution"
                             THEN [toolCall EXCEPT !.pc = "cleanup",
                                                   !.after = "caught"]
                             ELSE [toolCall EXCEPT !.pc = "caught"]
             /\ UNCHANGED events
    /\ UNCHANGED images
    /\ ToolUnchanged

\* The Polar usage event of a pay-per-use user outside development mode.
ToolPolar ==
    /\ toolCall.pc = "polar"
    /\ \E ok \in BOOLEAN :
        /\ ok \/ PolarDue(toolCall)
        /\ events' = IF PolarDue(toolCall) /\ ok
                      THEN events \cup {Event("polar", toolCall.tool)}
                      ELSE events
        /\ toolCall' = [toolCall EXCEPT
                           !.pc = IF toolCall.tool = "codeExecution"
                                  THEN "cleanup" ELSE AfterPolar(ok),
                           !.after = IF toolCall.tool = "codeExecution"
                                     THEN AfterPolar(ok) ELSE @,
                           !.polar = IF ~PolarDue(toolCall) THEN "skipped"
                                     ELSE IF ok THEN "sent" ELSE "failed"]
    /\ UNCHANGED images
    /\ ToolUnchanged

\* return { ... }
ToolReturn ==
    /\ toolCall.pc = "return"
    /\ toolCall' = [toolCall EXCEPT !.pc = "done", !.result = ToolResult(toolCall)]
    /\ UNCHANGED <<images, events>>
    /\ ToolUnchanged

\* The tool's outer catch: the error text is returned.
ToolCatch ==
    /\ toolCall.pc = "caught"
    /\ toolCall' = [toolCall EXCEPT !.pc = "done", !.result = TextResult("Error")]
    /\ UNCHANGED <<images, events>>
    /\ ToolUnchanged

\* GET /api/images/[imageId]: 404 when db.getImage gives an error or no row,
\* else 200 with the decoded bytes.
GetImage ==
    /\ toolCall.pc = "done"
    /\ \E imageId \in 1..MaxToolRuns, readOk \in BOOLEAN :
        LET rows == {row \in images : row.id = imageId}
        IN toolCall' = [toolCall EXCEPT !.fetched =
              IF ~readOk \/ rows = {}
              THEN [id |-> imageId, status |-> 404, body |-> "Image not found"]
              ELSE [id |-> imageId, status |-> 200,
                    body |-> FromBase64((CHOOSE row \in rows : TRUE).image_data)]]
    /\ UNCHANGED <<images, events>>
    /\ ToolUnchanged

\* The endpoint alone.
NextEndpoint ==
    \/ EpReceive \/ EpEmbed \/ EpQueryVectors \/ EpCompress \/ EpStore
    \/ EpReturn \/ EpCatch

SpecEndpoint == InitTools /\ [][NextEndpoint]_vars

\* The tools and the image endpoint alone.
NextTools ==
    \/ ToolStart \/ ToolCallExternal \/ ToolSaveImage \/ ToolTrack
    \/ ToolPolar \/ ToolReturn \/ ToolCatch \/ GetImage
    \/ CodeCheck \/ SandboxCreate \/ SandboxRun \/ SandboxDelete

SpecTools == InitTools /\ [][NextTools]_vars

\* The endpoint and the tools, one request or invocation at a time.
NextNonCritical ==
    \/ EpReceive \/ EpEmbed \/ EpQueryVectors \/ EpCompress \/ EpStore
    \/ EpReturn \/ EpCatch
    \/ ToolStart \/ ToolCallExternal \/ ToolSaveImage \/ ToolTrack
    \/ ToolPolar \/ ToolReturn \/ ToolCatch \/ GetImage
    \/ CodeCheck \/ SandboxCreate \/ SandboxRun \/ SandboxDelete

SpecNonCritical == InitTools /\ [][NextNonCritical]_vars

\* The answer of the endpoint to a request that reached the storage step.
StoredStepResponse == EpOk(ContextId(ep.n), "compressed", ep.found)

\* C15: a failure in a non-critical path never changes the response: when
\* createRagContext fails POST /api/eco-rag still answers 200 with the same
\* context_id, summary and sources, and when the Polar usage event fails
\* generateImage, codeExecution and webSearch return the result they return
\* when it succeeds.
C15_NonCriticalFailureKeepsResponse ==
    /\ (ep.pc = "responded" /\ ep.stores > 0) =>
           ep.response = StoredStepResponse
    /\ (toolCall.pc = "done" /\ toolCall.polar # "skipped") =>
           toolCall.result = ToolResult([toolCall EXCEPT !.polar = "sent"])

C15_Witness ==
    /\ ep.pc = "responded" /\ ep.storeFailed /\ ep.response.status = 200
    /\ toolCall.pc = "done" /\ toolCall.polar = "failed"
    /\ toolCall.tool = "generateImage" /\ toolCall.result.success

\* C16: POST /api/eco-rag with a missing, empty or whitespace-only query
\* answers 400 with an error body and makes no embedding call, no vector
\* query, no compression call and stores no context.
C16_BlankQueryRejectedWithoutWork ==
    ( /\ ep.pc # "idle"
      /\ \/ ~ep.query.present
         \/ \A i \in 1..Len(ep.query.chars) : ep.query.chars[i] \in WhiteSpace ) =>
    /\ ep.pc = "responded"
    /\ ep.response.status = 400
    /\ ep.response.error # ""
    /\ ep.embeddings = 0 /\ ep.vectorQueries = 0
    /\ ep.compressions = 0 /\ ep.stores = 0
    /\ ContextId(ep.n) \notin ragRows

C16_Witness ==
    /\ ep.pc = "responded"
    /\ ep.query.present /\ Len(ep.query.chars) = 3
    /\ \A i \in 1..3 : ep.query.chars[i] \in WhiteSpace
    /\ ep.response.status = 400

\* The external calls of one request in the order the handler makes them.
EpCallOrder == <<"embed", "vectors", "compress", "store">>

EpCalled(name) == \E i \in 1..Len(ep.calls) : ep.calls[i] = name

\* C25: POST /api/eco-rag makes its external calls in the fixed order embed,
\* query vector index, compress, store, respond, each at most once and never
\* again after a failure; it compresses and stores only when the vector query
\* returned at least one result, and stores only with a sessionId; a failed
\* embedding, vector query or compression is answered with 500 and stores
\* nothing.
C25_CallsInOrderAtMostOnce ==
    /\ Len(ep.calls) <= Len(EpCallOrder)
    /\ ep.calls = SubSeq(EpCallOrder, 1, Len(ep.calls))
    /\ ep.embeddings <= 1 /\ ep.vectorQueries <= 1
    /\ ep.compressions <= 1 /\ ep.stores <= 1
    /\ EpCalled("compress") => ep.found >= 1
    /\ EpCalled("store") => ep.found >= 1 /\ ep.sid
    /\ ep.failedAt # "none" =>
          /\ ep.calls[Len(ep.calls)] = ep.failedAt
          /\ ep.stores = 0
          /\ ContextId(ep.n) \notin ragRows
          /\ ep.pc \in {"failed", "responded"}
          /\ ep.pc = "responded" => ep.response.status = 500
    /\ (ep.pc = "responded" /\ ep.response.status = 200) =>
          ep.calls = IF ep.found = 0 THEN SubSeq(EpCallOrder, 1, 2)
                     ELSE IF ep.sid THEN EpCallOrder
                     ELSE SubSeq(EpCallOrder, 1, 3)

C25_Witness ==
    /\ ep.pc = "responded" /\ ep.response.status = 200
    /\ ep.calls = EpCallOrder
    /\ ContextId(ep.n) \in ragRows

ResultFields ==
    {"success", "imageId", "imageUrl", "prompt", "revisedPrompt", "size",
     "quality", "background", "title", "executionTime", "_instructions"}

Succeeded(tc) ==
    /\ tc.pc = "done" /\ tc.tool = "generateImage"
    /\ "success" \in DOMAIN tc.result

\* C18: every image generateImage reports with success: true is stored and
\* has the URL /api/images/{imageId}, and from then on GET on that URL
\* answers 200 with exactly the generated PNG bytes.
C18_SuccessMeansStoredAndServed ==
    Succeeded(toolCall) =>
        /\ toolCall.result.imageUrl = ImageUrl(toolCall.n)
        /\ \E row \in images :
              row.id = toolCall.n /\ FromBase64(row.image_data) = toolCall.png
        /\ toolCall.fetched.id = toolCall.n =>
              toolCall.fetched.status = 200 /\ toolCall.fetched.body = toolCall.png

\* C19: in development mode no tool invocation emits a Polar usage event or
\* an analytics tracking event, for any user tier.
C19_DevelopmentModeEmitsNoEvent ==
    toolCall.dev => events = {}


\* C26: codeExecution creates at most one sandbox per invocation, and when
\* the tool returns, deletion has been requested for every sandbox it
\* created, whether the code exited with 0, with another code, or codeRun or
\* the tracking call threw; code longer than 10,000 characters and a
\* missing Daytona key or URL are rejected before any sandbox is created.
C26_SandboxDeletedOnEveryPath ==
    toolCall.tool = "codeExecution" =>
        /\ toolCall.created <= 1
        /\ toolCall.deleteRequests <= toolCall.created
        /\ toolCall.pc \in {"return", "caught", "done"} =>
              toolCall.deleteRequests = toolCall.created
        /\ ( \/ toolCall.codeLen > MaxCodeLength
             \/ toolCall.config \in {"nokey", "nourl"} ) =>
              /\ toolCall.pc = "call" \/ toolCall.pc = "done"
              /\ toolCall.created = 0
              /\ toolCall.pc = "done" =>
                    toolCall.result \in {TextResult("Code too long"),
                                         TextResult("Configuration Error")}

C26_Witness ==
    /\ toolCall.tool = "codeExecution" /\ toolCall.pc = "done"
    /\ toolCall.codeLen = MaxCodeLength
    /\ toolCall.created = 1 /\ toolCall.deleteRequests = 1
    /\ toolCall.deleteFailed
    /\ toolCall.result = TextResult("Error")


(***************************************************************************)
(* createCSV: the generation of csvContent                                 *)
(***************************************************************************)
\* The characters of headers and cells: a plain one and the three that the
\* escaping looks for.
CsvChars == {"a", ",", "\"", "\n"}

CsvCells == UNION { [1..n -> CsvChars] : n \in 0..MaxCellLen }

\* A list of cells with one to MaxCsvColumns columns.
CsvLines == UNION { [1..k -> CsvCells] : k \in 1..MaxCsvColumns }

CsvInputs ==
    { [headers |-> h, rows |-> r] :
        h \in CsvLines, r \in UNION { [1..n -> CsvLines] : n \in 0..MaxCsvRows } }

\* cell.replace(/"/g, '""')
RECURSIVE replaceQuotes(_)
replaceQuotes(cell) ==
    IF cell = <<>> THEN <<>>
    ELSE (IF Head(cell) = "\"" THEN <<"\"", "\"">> ELSE <<Head(cell)>>)
         \o replaceQuotes(Tail(cell))

\* The cell as written to a data row: quoted when it contains a comma, a
\* double quote or a newline.
escapeCell(cell) ==
    IF includes(cell, <<",">>) \/ includes(cell, <<"\"">>) \/ includes(cell, <<"\n">>)
    THEN <<"\"">> \o replaceQuotes(cell) \o <<"\"">>
    ELSE cell

\* Array.prototype.join
RECURSIVE join(_, _)
join(strs, sep) ==
    IF strs = <<>> THEN <<>>
    ELSE IF Len(strs) = 1 THEN strs[1]
    ELSE strs[1] \o sep \o join(Tail(strs), sep)

\* [headers.join(','), ...rows.map(row => row.map(escape).join(','))].join('\n')
csvContent(headers, rows) ==
    join(<<join(headers, <<",">>)>>
         \o [i \in 1..Len(rows) |-> join(MapSeq(rows[i], escapeCell), <<",">>)],
         <<"\n">>)

\* rows.filter(row => row.length !== headerCount)
invalidRows(headers, rows) ==
    SelectSeq(rows, LAMBDA row : Len(row) # Len(headers))

InitCsv ==
    /\ csv \in { [pc |-> "input", headers |-> in.headers, rows |-> in.rows,
                 error |-> FALSE, content |-> <<>>] : in \in CsvInputs }
    /\ pMessages = <<>> /\ pMaxTokens = 0 /\ pResult = <<>> /\ pOp = "csv"
    /\ client = [user |-> FALSE, sid |-> FALSE]
    /\ stored = <<>> /\ uuidCtr = 0 /\ req = <<>>
    /\ ragSession = FALSE /\ ragRows = {} /\ endpointHits = 0 /\ call = <<>>
    /\ gate = <<>> /\ ep = <<>> /\ toolCall = <<>> /\ images = {} /\ events = {}

\* createCSV.execute: the validation of the rows and the CSV text.
CreateCsv ==
    /\ csv.pc = "input"
    /\ csv' = IF Len(invalidRows(csv.headers, csv.rows)) > 0
              THEN [csv EXCEPT !.pc = "done", !.error = TRUE]
              ELSE [csv EXCEPT !.pc = "done",
                               !.content = csvContent(csv.headers, csv.rows)]
    /\ UNCHANGED <<pMessages, pMaxTokens, pResult, pOp, chatVars, ragVars, extVars>>

NextCsv == CreateCsv

SpecCsv == InitCsv /\ [][NextCsv]_vars

\* A reader of CSV text under the standard quoting rules: a field that
\* starts with a double quote runs to the closing quote, a doubled quote
\* inside it is one quote, commas separate fields and newlines records.
RECURSIVE ParseFrom(_, _, _, _, _, _)
ParseFrom(chars, i, inQuotes, field, record, records) ==
    IF i > Len(chars) THEN Append(records, Append(record, field))
    ELSE LET c == chars[i]
         IN IF inQuotes
            THEN IF c = "\""
                 THEN IF i < Len(chars) /\ chars[i + 1] = "\""
                      THEN ParseFrom(chars, i + 2, TRUE, Append(field, "\""),
                                     record, records)
                      ELSE ParseFrom(chars, i + 1, FALSE, field, record, records)
                 ELSE ParseFrom(chars, i + 1, TRUE, Append(field, c), record, records)
            ELSE IF c = "\"" /\ field = <<>>
                 THEN ParseFrom(chars, i + 1, TRUE, field, record, records)
            ELSE IF c = ","
                 THEN ParseFrom(chars, i + 1, FALSE, <<>>, Append(record, field),
                                records)
            ELSE IF c = "\n"
                 THEN ParseFrom(chars, i + 1, FALSE, <<>>, <<>>,
                                Append(records, Append(record, field)))
            ELSE ParseFrom(chars, i + 1, FALSE, Append(field, c), record, records)

ParseCsv(chars) == ParseFrom(chars, 1, FALSE, <<>>, <<>>, <<>>)

\* C30: the csvContent createCSV produces round-trips under the standard
\* CSV quoting rules: read back, it gives the headers followed by the rows,
\* also when a header contains a comma, a double quote or a newline.
C30_CsvContentRoundTrips ==
    (csv.pc = "done" /\ ~csv.error) =>
        ParseCsv(csv.content) = <<csv.headers>> \o csv.rows

\* With headers that hold none of the three characters the text is read
\* back as written.
RowsRoundTrip ==
    ( /\ csv.pc = "done" /\ ~csv.error
      /\ \A i \in 1..Len(csv.headers) : escapeCell(csv.headers[i]) = csv.headers[i] ) =>
        ParseCsv(csv.content) = <<csv.headers>> \o csv.rows

====
